---------------------------- MODULE Spec2Model ----------------------------
(***************************************************************************)
(* topic_index (src/topic-index/topic_index.c): a single pass tokenizer,   *)
(* a word index keeping per word the number of occurrences and the number  *)
(* of sentences containing it, a ranking step (topic word + top 4 other    *)
(* non stop words) and a report.                                           *)
(*                                                                         *)
(* Characters are one-character strings, words and texts are sequences of  *)
(* characters.  main() is cut into steps at the places where it can leave  *)
(* (exit on allocation failure, return); pc is the position in main().     *)
(***************************************************************************)
EXTENDS Integers, Sequences, FiniteSets, TLC

---------------------------------------------------------------------------
(* Bounds of the model *)

\* longest input stream read from fp
MaxLen == 5

\* largest occurrence count of a word in the indexes SpecRank starts from
MaxCount == 2

\* topic_index.c:22 defines INITIAL_BUF_SIZE as 64.  The model starts the
\* token buffer smaller, so that the growth step of lines 193-202 (and its
\* failure) happens on inputs of MaxLen characters; the growth rule itself
\* (buf_len + 1 >= buf_cap, doubling) is the code's.
INITIAL_BUF_SIZE == 2

---------------------------------------------------------------------------
(* Program constants *)

HASH_SIZE == 10007

EXIT_SUCCESS == 0

EXIT_FAILURE == 1

\* the null pointer, for pointers into hash_table (entries are numbered from 1)
NULL == 0

---------------------------------------------------------------------------
(* <ctype.h> in the C locale *)

LowerCase == <<"a","b","c","d","e","f","g","h","i","j","k","l","m",
               "n","o","p","q","r","s","t","u","v","w","x","y","z">>

UpperCase == <<"A","B","C","D","E","F","G","H","I","J","K","L","M",
               "N","O","P","Q","R","S","T","U","V","W","X","Y","Z">>

Digits == <<"0","1","2","3","4","5","6","7","8","9">>

Range(s) == {s[i] : i \in DOMAIN s}

IndexOf(s, c) == CHOOSE i \in DOMAIN s : s[i] = c

Lowers == Range(LowerCase)

Uppers == Range(UpperCase)

Alnums == Lowers \cup Uppers \cup Range(Digits)

isalnum(c) == c \in Alnums

\* the lower-case letter of every upper-case letter
LowerOfUpper == [c \in Uppers |-> LowerCase[IndexOf(UpperCase, c)]]

tolower_identity(c) == c

tolower(c) == IF c \in Uppers THEN LowerOfUpper[c] ELSE c

\* the character codes of the alphanumeric characters (ASCII)
CodeOfAlnum ==
    [c \in Alnums |-> IF c \in Lowers THEN 96 + IndexOf(LowerCase, c)
                      ELSE IF c \in Uppers THEN 64 + IndexOf(UpperCase, c)
                      ELSE 47 + IndexOf(Digits, c)]

\* the code of a character; the other characters of the model ('.', '!',
\* '?', ' ') never reach hash_word, they count as '.'
Code(c) == IF c \in Alnums THEN CodeOfAlnum[c] ELSE 46

\* lines 216: c == '.' || c == '!' || c == '?'
IsTerminator(c) == c = "." \/ c = "!" \/ c = "?"

---------------------------------------------------------------------------
(* The stop-word list, lines 27-32 *)

STOP_WORDS == {
    <<"a">>, <<"a","n">>, <<"a","n","d">>, <<"a","r","e">>, <<"a","s">>,
    <<"a","t">>, <<"b","e">>, <<"b","y">>, <<"f","o","r">>,
    <<"f","r","o","m">>, <<"h","a","s">>, <<"h","e">>, <<"i","n">>,
    <<"i","s">>, <<"i","t">>, <<"i","t","s">>, <<"o","f">>, <<"o","n">>,
    <<"t","h","a","t">>, <<"t","h","e">>, <<"t","o">>, <<"w","a","s">>,
    <<"w","e","r","e">>, <<"w","i","l","l">>, <<"w","i","t","h">>, <<"I">>,
    <<"y","o","u">>, <<"m","e">>, <<"m","y">>, <<"w","e">>, <<"o","u","r">>,
    <<"t","h","e","y">>, <<"t","h","e","i","r">>, <<"t","h","e","m">>,
    <<"t","h","i","s">>, <<"t","h","o","s","e">>, <<"t","h","e","s","e">>,
    <<"y","o","u","r">>, <<"y","o","u","r","s">>, <<"h","i","s">>,
    <<"h","e","r">>, <<"h","e","r","s">>, <<"h","i","m">>, <<"s","h","e">>,
    <<"w","h","o">>, <<"w","h","o","m">>, <<"w","h","a","t">>,
    <<"w","h","i","c","h">>, <<"w","h","e","n">>, <<"w","h","e","r","e">>,
    <<"w","h","y">>, <<"h","o","w">>, <<"i","f">>, <<"o","r">>,
    <<"b","u","t">>, <<"n","o","t">> }

\* lines 69-79: strcmp against every list element
is_stop_word(word) == \E sw \in STOP_WORDS : sw = word

---------------------------------------------------------------------------
(* The word index, lines 35-116 *)

\* djb2, lines 47-56.  The code computes h*33 + c in unsigned long and
\* reduces modulo HASH_SIZE at the end; for words shorter than 11 characters
\* h stays below 2^64, so reducing at every step gives the same bucket.
RECURSIVE djb2(_, _)
djb2(h, s) == IF s = <<>> THEN h
              ELSE djb2((h * 33 + Code(Head(s))) % HASH_SIZE, Tail(s))

hash_word(s) == djb2(5381, s) % HASH_SIZE

\* hash_table is kept as the sequence of its WordEntry nodes in creation
\* order; a pointer to a node is its position.  The bucket chain of h is
\* the nodes whose word hashes to h, newest first (lines 104-105).
Chain(table, h) == {i \in DOMAIN table : hash_word(table[i].word) = h}

\* lines 84-91: walk the chain of the word's bucket until strcmp says equal
Lookup(table, word) ==
    LET hits == {i \in Chain(table, hash_word(word)) : table[i].word = word}
    IN  IF hits = {} THEN NULL ELSE CHOOSE i \in hits : TRUE

\* lines 94-105: a fresh node
NewEntry_id0(word) ==
    [word |-> word, count |-> 0, sentence_count |-> 0, last_sentence_id |-> 0]

NewEntry(word) ==
    [word |-> word, count |-> 0, sentence_count |-> 0, last_sentence_id |-> -1]

\* lines 108-114: update counts
UpdateCounts_every_occurrence(e, current_sentence) ==
    [e EXCEPT !.count = @ + 1,
              !.sentence_count = @ + 1,
              !.last_sentence_id = current_sentence]

UpdateCounts(e, current_sentence) ==
    IF e.last_sentence_id # current_sentence
    THEN [e EXCEPT !.count = @ + 1,
                   !.sentence_count = @ + 1,
                   !.last_sentence_id = current_sentence]
    ELSE [e EXCEPT !.count = @ + 1]

\* lines 82-116 when no allocation fails: the table after the call
get_word_entry(table, word, current_sentence) ==
    LET p == Lookup(table, word)
    IN  IF p = NULL
        THEN Append(table, UpdateCounts(NewEntry(word), current_sentence))
        ELSE [table EXCEPT ![p] = UpdateCounts(@, current_sentence)]

\* lines 92-100: the call allocates (xmalloc, strdup) exactly when the word
\* has no node yet
NeedsAlloc(table, word) == Lookup(table, word) = NULL

---------------------------------------------------------------------------
(* Inputs *)

\* the characters the input stream is made of: a letter in both cases, a
\* second letter, two of the three terminators and a separator
InputChars == {"a", "A", "b", ".", "?", " "}

\* argv[1]
Topics == { <<"A">>, <<"b">> }

\* argv: program name, topic word, input path.  A path is "readable" or
\* "missing" (fopen returns NULL)
ArgVectors ==
    { <<"topic_index">> }
    \cup { <<"topic_index", t>> : t \in Topics }
    \cup { <<"topic_index", t, p>> : t \in Topics, p \in {"readable", "missing"} }

---------------------------------------------------------------------------
(* State *)

VARIABLES
    pc,                  \* position in main()
    argv,                \* the argument vector; argc is its length
    fp,                  \* "null", "stdin" or "file"
    fclosed,             \* fclose(fp) has been called (line 234)
    consumed,            \* the characters fgetc has returned so far
    buf,                 \* the token buffer, buf[0 .. buf_len-1]
    buf_cap,
    total_words,
    total_sentences,
    current_sentence_id,
    hash_table,          \* the WordEntry nodes, see Chain
    array,               \* the WordPtr array: pointers into hash_table
    topic_entry,         \* pointer into hash_table, or NULL
    top4,                \* four pointers into hash_table, or NULL
    out,                 \* lines written to stdout
    err,                 \* lines written to stderr
    exit_status          \* the process's exit status once pc = "exit"

vars == <<pc, argv, fp, fclosed, consumed, buf, buf_cap, total_words,
          total_sentences, current_sentence_id, hash_table, array,
          topic_entry, top4, out, err, exit_status>>

argc == Len(argv)

topic == argv[2]

buf_len == Len(buf)

\* the variables of the reading loop
reading == <<consumed, buf, buf_cap, total_words, total_sentences,
             current_sentence_id, hash_table>>

\* the variables of the ranking and reporting steps
ranking == <<array, topic_entry, top4, out>>

\* lines 153-154 and the static hash_table of line 44: the state on entry
\* to main()
Init ==
    /\ pc = "start"
    /\ argv \in ArgVectors
    /\ fp = "null"
    /\ fclosed = FALSE
    /\ consumed = <<>>
    /\ buf = <<>>
    /\ buf_cap = 0
    /\ total_words = 0
    /\ total_sentences = 0
    /\ current_sentence_id = 0
    /\ hash_table = <<>>
    /\ array = <<>>
    /\ topic_entry = NULL
    /\ top4 = <<NULL, NULL, NULL, NULL>>
    /\ out = <<>>
    /\ err = <<>>
    /\ exit_status = -1

\* exit(status) or return status from main
Exit(status) ==
    /\ pc' = "exit"
    /\ exit_status' = status

\* fprintf(stderr, "topic_index: out of memory\n"); exit(EXIT_FAILURE);
\* lines 63-64, 98-99, 199-200, 254-255, 269-270
OutOfMemory ==
    /\ err' = Append(err, "out of memory")
    /\ Exit(EXIT_FAILURE)

---------------------------------------------------------------------------
(* main(): arguments and input stream, lines 156-186 *)

\* lines 156-160
UsageError ==
    /\ pc = "start"
    /\ argc < 2
    /\ err' = Append(err, "usage")
    /\ Exit(EXIT_FAILURE)
    /\ UNCHANGED <<argv, fp, fclosed, reading, ranking>>

\* lines 164-171: fopen fails
OpenFail ==
    /\ pc = "start"
    /\ argc >= 3
    /\ argv[3] = "missing"
    /\ err' = Append(err, "fopen")
    /\ Exit(EXIT_FAILURE)
    /\ UNCHANGED <<argv, fp, fclosed, reading, ranking>>

\* lines 162-176: the stream is the named file or stdin
OpenInput ==
    /\ pc = "start"
    /\ argc >= 2
    /\ IF argc >= 3
       THEN argv[3] = "readable" /\ fp' = "file"
       ELSE fp' = "stdin"
    /\ pc' = "alloc"
    /\ UNCHANGED <<argv, fclosed, reading, ranking, err, exit_status>>

\* lines 180-186
AllocBuf ==
    /\ pc = "alloc"
    /\ buf' = <<>>
    /\ buf_cap' = INITIAL_BUF_SIZE
    /\ total_words' = 0
    /\ total_sentences' = 0
    /\ current_sentence_id' = 0
    /\ pc' = "read"
    /\ UNCHANGED <<argv, fp, fclosed, consumed, hash_table, ranking, err,
                   exit_status>>

\* line 180, xmalloc lines 60-65: malloc returns NULL
AllocBufOOM ==
    /\ pc = "alloc"
    /\ OutOfMemory
    /\ UNCHANGED <<argv, fp, fclosed, reading, ranking>>

---------------------------------------------------------------------------
(* main(): the reading loop, lines 188-240 *)

\* lines 193-202: the buffer's capacity after making room for one character
Grow(len, cap) == IF len + 1 >= cap THEN cap * 2 ELSE cap

\* lines 190-204: fgetc returns an alphanumeric character
ReadAlnum(c) ==
    /\ pc = "read"
    /\ Len(consumed) < MaxLen
    /\ isalnum(c)
    /\ consumed' = Append(consumed, c)
    /\ buf_cap' = Grow(buf_len, buf_cap)
    /\ buf' = Append(buf, tolower(c))
    /\ UNCHANGED <<pc, argv, fp, fclosed, total_words, total_sentences,
                   current_sentence_id, hash_table, ranking, err, exit_status>>

\* lines 193-201: realloc of the buffer returns NULL
ReadAlnumOOM(c) ==
    /\ pc = "read"
    /\ Len(consumed) < MaxLen
    /\ isalnum(c)
    /\ buf_len + 1 >= buf_cap
    /\ consumed' = Append(consumed, c)
    /\ OutOfMemory
    /\ UNCHANGED <<argv, fp, fclosed, buf, buf_cap, total_words,
                   total_sentences, current_sentence_id, hash_table, ranking>>

\* lines 208-214 and 224-230: finish the pending word, if any
FinishWord(table, word, sid) ==
    IF Len(word) > 0 THEN get_word_entry(table, word, sid) ELSE table

\* lines 216-220: the sentence counter after character c
CountSentence(n, c) == IF IsTerminator(c) THEN n + 1 ELSE n

\* lines 205-221: fgetc returns a character that is not alphanumeric
ReadOther(c) ==
    /\ pc = "read"
    /\ Len(consumed) < MaxLen
    /\ ~isalnum(c)
    /\ consumed' = Append(consumed, c)
    /\ hash_table' = FinishWord(hash_table, buf, current_sentence_id)
    /\ total_words' = IF buf_len > 0 THEN total_words + 1 ELSE total_words
    /\ buf' = <<>>
    /\ total_sentences' = CountSentence(total_sentences, c)
    /\ current_sentence_id' =
          IF IsTerminator(c) THEN total_sentences' ELSE current_sentence_id
    /\ UNCHANGED <<pc, argv, fp, fclosed, buf_cap, ranking, err, exit_status>>

\* line 211 with lines 94-99: xmalloc or strdup for the new node returns NULL
ReadOtherOOM(c) ==
    /\ pc = "read"
    /\ Len(consumed) < MaxLen
    /\ ~isalnum(c)
    /\ buf_len > 0
    /\ NeedsAlloc(hash_table, buf)
    /\ consumed' = Append(consumed, c)
    /\ OutOfMemory
    /\ UNCHANGED <<argv, fp, fclosed, buf, buf_cap, total_words,
                   total_sentences, current_sentence_id, hash_table, ranking>>

\* lines 236-240: the whole text is one sentence if it has no terminator
FixSentences_never(sentences, words) == sentences

FixSentences(sentences, words) ==
    IF sentences = 0 /\ words > 0 THEN 1 ELSE sentences

\* lines 223-240: fgetc returns EOF; flush, free(buf), close, sentence fix
EndOfInput ==
    /\ pc = "read"
    /\ hash_table' = FinishWord(hash_table, buf, current_sentence_id)
    /\ total_words' = IF buf_len > 0 THEN total_words + 1 ELSE total_words
    /\ buf' = <<>>
    /\ fclosed' = (fp # "stdin")
    /\ total_sentences' = FixSentences(total_sentences, total_words')
    /\ pc' = "collect"
    /\ UNCHANGED <<argv, fp, consumed, buf_cap, current_sentence_id, ranking,
                   err, exit_status>>

\* line 227 with lines 94-99: allocation for the last word's node fails
EndOfInputOOM ==
    /\ pc = "read"
    /\ buf_len > 0
    /\ NeedsAlloc(hash_table, buf)
    /\ OutOfMemory
    /\ UNCHANGED <<argv, fp, fclosed, reading, ranking>>

---------------------------------------------------------------------------
(* main(): ranking and report, lines 242-351 *)

\* lines 246-261: the nodes in the order the loop appends them, bucket by
\* bucket, each chain from its head (the newest node of the bucket)
RECURSIVE BucketOrder(_, _)
BucketOrder(table, S) ==
    IF S = {} THEN <<>>
    ELSE LET first == CHOOSE i \in S : \A j \in S \ {i} :
                         \/ hash_word(table[i].word) < hash_word(table[j].word)
                         \/ /\ hash_word(table[i].word) = hash_word(table[j].word)
                            /\ i > j
         IN  <<first>> \o BucketOrder(table, S \ {first})


\* lines 251-256: realloc of the array returns NULL (the loop body runs
\* only when the table has a node)
CollectOOM ==
    /\ pc = "collect"
    /\ hash_table # <<>>
    /\ OutOfMemory
    /\ UNCHANGED <<argv, fp, fclosed, reading, ranking>>

\* lines 140-149, on two pointers into the table
cmp_wordptr_count(table, a, b) ==
    IF table[a].count < table[b].count THEN 1
    ELSE IF table[a].count > table[b].count THEN -1
    ELSE 0

\* line 263: qsort leaves the elements in an order the comparison function
\* agrees with; the order of elements that compare equal is unspecified.
\* The set of the arrangements of S that qsort may produce.
RECURSIVE qsort(_, _)
qsort(table, S) ==
    IF S = {} THEN { <<>> }
    ELSE UNION { { <<x>> \o rest : rest \in qsort(table, S \ {x}) } :
                 x \in {y \in S : \A z \in S : cmp_wordptr_count(table, y, z) <= 0} }

\* lines 243-263: collect the pointers, then sort them.  With an empty table
\* the array stays a null pointer and qsort is called with 0 elements: it
\* returns at once
CollectArray_header_first ==
    /\ pc = "collect"
    /\ array' \in qsort(hash_table,
                        Range(BucketOrder(hash_table, DOMAIN hash_table)))
    /\ out' = << [kind |-> "header", topic |-> argv[2],
                  total_words |-> total_words,
                  total_sentences |-> total_sentences] >>
    /\ pc' = "topic"
    /\ UNCHANGED <<argv, fp, fclosed, reading, topic_entry, top4, err,
                   exit_status>>

CollectArray ==
    /\ pc = "collect"
    /\ array' \in qsort(hash_table,
                        Range(BucketOrder(hash_table, DOMAIN hash_table)))
    /\ pc' = "topic"
    /\ UNCHANGED <<argv, fp, fclosed, reading, topic_entry, top4, out, err,
                   exit_status>>

\* lines 272-279: the topic argument, lower-cased
topic_lc == [i \in DOMAIN topic |-> tolower(topic[i])]

\* lines 266-271: strdup(topic) returns NULL
TopicOOM ==
    /\ pc = "topic"
    /\ OutOfMemory
    /\ UNCHANGED <<argv, fp, fclosed, reading, ranking>>

\* lines 300-308: the loop from index i on (i counts from 1 here)
RECURSIVE Gather_keep_topic(_, _, _, _, _, _)
Gather_keep_topic(table, arr, tentry, i, t4, found) ==
    IF ~(i <= Len(arr) /\ found < 4) THEN t4
    ELSE IF is_stop_word(table[arr[i]].word)
         THEN Gather_keep_topic(table, arr, tentry, i + 1, t4, found)
    ELSE Gather_keep_topic(table, arr, tentry, i + 1,
                           [t4 EXCEPT ![found + 1] = arr[i]], found + 1)

RECURSIVE Gather_three(_, _, _, _, _, _)
Gather_three(table, arr, tentry, i, t4, found) ==
    IF ~(i <= Len(arr) /\ found < 3) THEN t4
    ELSE IF arr[i] = tentry
         THEN Gather_three(table, arr, tentry, i + 1, t4, found)
    ELSE IF is_stop_word(table[arr[i]].word)
         THEN Gather_three(table, arr, tentry, i + 1, t4, found)
    ELSE Gather_three(table, arr, tentry, i + 1,
                      [t4 EXCEPT ![found + 1] = arr[i]], found + 1)

RECURSIVE Gather(_, _, _, _, _, _)
Gather(table, arr, tentry, i, t4, found) ==
    IF ~(i <= Len(arr) /\ found < 4) THEN t4
    ELSE IF arr[i] = tentry
         THEN Gather(table, arr, tentry, i + 1, t4, found)
    ELSE IF is_stop_word(table[arr[i]].word)
         THEN Gather(table, arr, tentry, i + 1, t4, found)
    ELSE Gather(table, arr, tentry, i + 1,
                [t4 EXCEPT ![found + 1] = arr[i]], found + 1)

\* lines 326-331: a percentage, kept exact as <<numerator, denominator>>
Pct(n, total) == IF total > 0 THEN <<100 * n, total>> ELSE <<0, 1>>

\* lines 321-336: the line printed for an entry, nothing for a null pointer
PRINT_LINE_zero_row(table, entry, words, sentences) ==
    IF entry # NULL
    THEN << [kind |-> "row",
             word |-> table[entry].word,
             count |-> table[entry].count,
             pct_w |-> Pct(table[entry].count, words),
             sentence_count |-> table[entry].sentence_count,
             total_sentences |-> sentences,
             pct_s |-> Pct(table[entry].sentence_count, sentences)] >>
    ELSE << [kind |-> "row", word |-> <<>>, count |-> 0, pct_w |-> <<0, 1>>,
             sentence_count |-> 0, total_sentences |-> sentences,
             pct_s |-> <<0, 1>>] >>

PRINT_LINE(table, entry, words, sentences) ==
    IF entry # NULL
    THEN << [kind |-> "row",
             word |-> table[entry].word,
             count |-> table[entry].count,
             pct_w |-> Pct(table[entry].count, words),
             sentence_count |-> table[entry].sentence_count,
             total_sentences |-> sentences,
             pct_s |-> Pct(table[entry].sentence_count, sentences)] >>
    ELSE << >>

\* lines 311-318: the header (the fixed lines are left out)
Header == << [kind |-> "header", topic |-> topic, total_words |-> total_words,
              total_sentences |-> total_sentences] >>

\* lines 265-351, strdup(topic) succeeding: find the topic entry (281-295),
\* gather the top 4 (297-308), print the report (310-344), return
Report ==
    /\ pc = "topic"
    /\ topic_entry' = Lookup(hash_table, topic_lc)
    /\ top4' = Gather(hash_table, array, topic_entry', 1,
                      <<NULL, NULL, NULL, NULL>>, 0)
    /\ out' = Header
              \o PRINT_LINE(hash_table, topic_entry', total_words, total_sentences)
              \o PRINT_LINE(hash_table, top4'[1], total_words, total_sentences)
              \o PRINT_LINE(hash_table, top4'[2], total_words, total_sentences)
              \o PRINT_LINE(hash_table, top4'[3], total_words, total_sentences)
              \o PRINT_LINE(hash_table, top4'[4], total_words, total_sentences)
    /\ Exit(EXIT_SUCCESS)
    /\ UNCHANGED <<argv, fp, fclosed, reading, array, err>>

---------------------------------------------------------------------------
(* The program *)

Next ==
    \/ UsageError
    \/ OpenFail
    \/ OpenInput
    \/ AllocBuf
    \/ AllocBufOOM
    \/ \E c \in InputChars : ReadAlnum(c)
    \/ \E c \in InputChars : ReadAlnumOOM(c)
    \/ \E c \in InputChars : ReadOther(c)
    \/ \E c \in InputChars : ReadOtherOOM(c)
    \/ EndOfInput
    \/ EndOfInputOOM
    \/ CollectArray
    \/ CollectOOM
    \/ TopicOOM
    \/ Report

Spec == Init /\ [][Next]_vars

---------------------------------------------------------------------------
(* The ranking steps started from an index of up to six one-letter words   *)
(* (one of them the stop word "a"), as left by reading from stdin the text *)
(* in which every occurrence is a sentence of its own: "a.a.b.c." ...      *)

RankPool == << <<"a">>, <<"b">>, <<"c">>, <<"d">>, <<"e">>, <<"f">> >>

\* the number of occurrences of the first k words of the pool
RECURSIVE Occurrences(_, _)
Occurrences(cnt, k) == IF k = 0 THEN 0 ELSE Occurrences(cnt, k - 1) + cnt[k]

\* n sentences made of one word
RECURSIVE Sentences(_, _)
Sentences(word, n) ==
    IF n = 0 THEN <<>> ELSE word \o <<".">> \o Sentences(word, n - 1)

\* the text: cnt[k] sentences made of word k, for k = 1, 2, ...
RECURSIVE RankText(_, _)
RankText(cnt, k) ==
    IF k = 0 THEN <<>>
    ELSE RankText(cnt, k - 1) \o Sentences(RankPool[k], cnt[k])

\* the index after that text: a node per word that occurs, in text order
RECURSIVE RankTable(_, _)
RankTable(cnt, k) ==
    IF k = 0 THEN <<>>
    ELSE RankTable(cnt, k - 1)
         \o (IF cnt[k] = 0 THEN <<>>
             ELSE << [word |-> RankPool[k], count |-> cnt[k],
                      sentence_count |-> cnt[k],
                      last_sentence_id |-> Occurrences(cnt, k) - 1] >>)

InitRank ==
    /\ pc = "collect"
    /\ argv \in { <<"topic_index", t>> : t \in Topics }
    /\ fp = "stdin"
    /\ fclosed = FALSE
    /\ \E cnt \in [DOMAIN RankPool -> 0 .. MaxCount] :
          /\ consumed = RankText(cnt, Len(RankPool))
          /\ hash_table = RankTable(cnt, Len(RankPool))
          /\ total_words = Occurrences(cnt, Len(RankPool))
          /\ total_sentences = Occurrences(cnt, Len(RankPool))
          /\ current_sentence_id = Occurrences(cnt, Len(RankPool))
    /\ buf = <<>>
    /\ buf_cap = INITIAL_BUF_SIZE
    /\ array = <<>>
    /\ topic_entry = NULL
    /\ top4 = <<NULL, NULL, NULL, NULL>>
    /\ out = <<>>
    /\ err = <<>>
    /\ exit_status = -1

NextRank ==
    \/ CollectArray
    \/ CollectOOM
    \/ TopicOOM
    \/ Report

SpecRank == InitRank /\ [][NextRank]_vars

---------------------------------------------------------------------------
(* What the properties below are stated against: the text read so far,    *)
(* described position by position, independently of the reading loop.      *)

\* the sentence terminators
Terminators == {".", "!", "?"}

\* the lower-case form of a character
LowerPairs == {<<UpperCase[i], LowerCase[i]>> : i \in DOMAIN UpperCase}

LowerOf(c) ==
    IF \E pr \in LowerPairs : pr[1] = c
    THEN (CHOOSE pr \in LowerPairs : pr[1] = c)[2]
    ELSE c

\* the positions where a maximal run of alphanumeric characters starts
RunStarts(s) ==
    {i \in DOMAIN s : isalnum(s[i]) /\ (i = 1 \/ ~isalnum(s[i - 1]))}

\* the last position of the run that starts at i
RunEnd(s, i) ==
    CHOOSE j \in i .. Len(s) :
        /\ \A k \in i .. j : isalnum(s[k])
        /\ (j = Len(s) \/ ~isalnum(s[j + 1]))

\* the run that starts at i, lower-cased
WordAt(s, i) == [k \in 1 .. (RunEnd(s, i) - i + 1) |-> LowerOf(s[i + k - 1])]

\* the words of the text
WordsOf(s) == {WordAt(s, i) : i \in RunStarts(s)}

\* the occurrences of word w
OccurrencesOf(s, w) == {i \in RunStarts(s) : WordAt(s, i) = w}

\* the sentence of position i: the number of terminators before it
SentenceOf(s, i) == Cardinality({k \in 1 .. (i - 1) : s[k] \in Terminators})

\* the sentences that contain word w
SentencesWith(s, w) == {SentenceOf(s, i) : i \in OccurrencesOf(s, w)}

NumTerminators(s) == Cardinality({k \in DOMAIN s : s[k] \in Terminators})

\* the input has just been read to its end and indexed (line 241); the
\* steps after it leave the index and the counters alone
AtEndOfInput == pc = "collect"

\* the report has been written
Reported == pc = "exit" /\ exit_status = EXIT_SUCCESS

\* the report's rows (the lines after the header)
Rows == {out[i] : i \in DOMAIN out \ {1}}

RECURSIVE SumCounts(_, _)
SumCounts(table, k) ==
    IF k = 0 THEN 0 ELSE SumCounts(table, k - 1) + table[k].count

\* the nodes whose word is the lower-cased topic argument
TopicRecords ==
    {p \in DOMAIN hash_table :
        hash_table[p].word = [i \in DOMAIN topic |-> LowerOf(topic[i])]}

TopicAbsent == TopicRecords = {}

\* the nodes that qualify as top others
Qualifying ==
    {p \in DOMAIN hash_table :
        p \notin TopicRecords /\ hash_table[p].word \notin STOP_WORDS}

\* the selected top others
Selected == {top4[i] : i \in 1 .. 4} \ {NULL}

InRange(pct) == 0 <= pct[1] /\ pct[1] <= 100 * pct[2]

---------------------------------------------------------------------------
(* C1 *)

\* C1: every percentage printed in a report row lies in [0, 100].
\* The code prints more than 100% of the sentences for a word that occurs
\* before and after the last terminator ("a.a": 2 of 1 sentences).
C1_PercentagesInRange ==
    \A r \in Rows : InRange(r.pct_w) /\ InRange(r.pct_s)

---------------------------------------------------------------------------
(* C2 *)

\* C2: every WordEntry of the index has 1 <= sentence_count <= count, after
\* every step of the reading loop.
C2_SentenceCountBounds ==
    \A p \in DOMAIN hash_table :
        /\ 1 <= hash_table[p].sentence_count
        /\ hash_table[p].sentence_count <= hash_table[p].count

\* a word seen three times, in two sentences
C2_Witness ==
    /\ pc \in {"read", "collect"}
    /\ \E p \in DOMAIN hash_table :
          hash_table[p].count = 3 /\ hash_table[p].sentence_count = 2

---------------------------------------------------------------------------
(* C3 *)

\* C3: at the end of the input the sentence_count of every word is the
\* number of distinct sentences that contain the word.
C3_SentenceCountIsDistinctSentences ==
    AtEndOfInput =>
        /\ \A p \in DOMAIN hash_table :
              hash_table[p].sentence_count
                 = Cardinality(SentencesWith(consumed, hash_table[p].word))
        /\ \A w \in WordsOf(consumed) : Lookup(hash_table, w) # NULL

\* a word twice in one sentence, with another word between
C3_Witness ==
    /\ AtEndOfInput
    /\ \E p, q \in DOMAIN hash_table :
          /\ p # q
          /\ hash_table[p].count = 2
          /\ hash_table[p].sentence_count = 1
          /\ \E i, j, k \in RunStarts(consumed) :
                /\ i < j /\ j < k
                /\ WordAt(consumed, i) = hash_table[p].word
                /\ WordAt(consumed, j) = hash_table[q].word
                /\ WordAt(consumed, k) = hash_table[p].word

---------------------------------------------------------------------------
(* C4 *)

\* the number of sentences the report has to give for text s
ExpectedSentences(s) ==
    IF NumTerminators(s) > 0 THEN NumTerminators(s)
    ELSE IF RunStarts(s) # {} THEN 1
    ELSE 0

\* C4: the reported total_sentences is the number of terminator characters,
\* 1 for a text with words and no terminator, 0 for a text with neither
\* (and then total_words is 0 as well).
C4_TotalSentences ==
    /\ AtEndOfInput => total_sentences = ExpectedSentences(consumed)
    /\ Reported =>
          /\ out[1].total_sentences = ExpectedSentences(consumed)
          /\ (consumed = <<>> =>
                out[1].total_words = 0 /\ out[1].total_sentences = 0)

\* a report for a text with two terminators in a row
C4_Witness ==
    /\ Reported
    /\ \E i \in DOMAIN consumed :
          /\ i > 1
          /\ consumed[i] \in Terminators
          /\ consumed[i - 1] \in Terminators
    /\ out[1].total_sentences >= 2

\* a report for a text with words and no terminator
C4_WitnessNoTerminator ==
    /\ Reported
    /\ NumTerminators(consumed) = 0
    /\ out[1].total_words > 0

---------------------------------------------------------------------------
(* C5 *)

\* C5 as stated: when the topic is no word of the input, the run ends with
\* status 0 and the report has a topic row showing zero counts and zero
\* percentages.
C5_AbsentTopicZeroRow ==
    (Reported /\ TopicAbsent) =>
        /\ exit_status = EXIT_SUCCESS
        /\ \E r \in Rows :
              /\ r.count = 0
              /\ r.sentence_count = 0
              /\ r.pct_w[1] = 0
              /\ r.pct_s[1] = 0

\* C5 amended: when the topic is no word of the input, a run in which no
\* allocation fails ends with status 0, and its report has no topic row:
\* its rows are the rows of the selected top others and nothing else.
C5_AbsentTopicNoRow ==
    /\ (pc = "exit" /\ TopicAbsent /\ err = <<>>) =>
          exit_status = EXIT_SUCCESS
    /\ (Reported /\ TopicAbsent) =>
          /\ topic_entry = NULL
          /\ Len(out) = 1 + Cardinality(Selected)
          /\ \A r \in Rows :
                /\ r.count >= 1
                /\ \E p \in Selected : hash_table[p].word = r.word

\* a report for a text with words, none of them the topic
C5_Witness ==
    /\ Reported
    /\ TopicAbsent
    /\ hash_table # <<>>
    /\ Len(out) = 2

---------------------------------------------------------------------------
(* C6 *)

\* C6: the top others are min(4, Q) records, Q the number of indexed words
\* that are neither the topic record nor a stop word; none is the topic
\* record or a stop word; they are in non-increasing count order; and no
\* qualifying record left out has a larger count than a selected one.
C6_TopOthers ==
    Reported =>
        /\ Selected \subseteq Qualifying
        /\ Cardinality(Selected)
              = (IF Cardinality(Qualifying) < 4 THEN Cardinality(Qualifying) ELSE 4)
        /\ \A i \in 1 .. 4 : top4[i] # NULL <=> i <= Cardinality(Selected)
        /\ \A i, j \in 1 .. Cardinality(Selected) :
              i < j => hash_table[top4[i]].count >= hash_table[top4[j]].count
        /\ \A q \in Qualifying \ Selected : \A x \in Selected :
              hash_table[q].count <= hash_table[x].count

\* five qualifying words with different counts, a stop word and the topic
\* in the index: one qualifying word is left out
C6_Witness ==
    /\ Reported
    /\ Cardinality(Qualifying) = 5
    /\ Cardinality(Selected) = 4
    /\ \E q \in Qualifying \ Selected : \E x \in Selected :
          hash_table[q].count < hash_table[x].count
    /\ \E p \in DOMAIN hash_table : hash_table[p].word \in STOP_WORDS

\* fewer than four qualifying words
C6_WitnessFew ==
    /\ Reported
    /\ Cardinality(Qualifying) = 2
    /\ Cardinality(Selected) = 2

---------------------------------------------------------------------------
(* C7 *)

\* C7: when the lower-cased topic is a word of the input, the report's
\* first row is that word's row, with its count and sentence_count, also
\* when the word is a stop word; and the record is not among the top others.
C7_TopicRowPrinted ==
    (Reported /\ ~TopicAbsent) =>
        \A p \in TopicRecords :
            /\ Len(out) >= 2
            /\ out[2].word = hash_table[p].word
            /\ out[2].count = hash_table[p].count
            /\ out[2].sentence_count = hash_table[p].sentence_count
            /\ p \notin Selected
            /\ \A i \in DOMAIN out \ {1, 2} : out[i].word # hash_table[p].word

\* the topic argument "A" on a text with the stop word "a" and another word
C7_Witness ==
    /\ Reported
    /\ topic = <<"A">>
    /\ \E p \in TopicRecords : hash_table[p].word \in STOP_WORDS
    /\ Len(out) = 3

---------------------------------------------------------------------------
(* C8 *)

\* C8: nothing of the report is written before the input has been read to
\* its end and indexed, and a run that fails (usage, fopen, out of memory)
\* ends with a non-zero status and without any report output.
C8_NoOutputOnFailure ==
    /\ out # <<>> =>
          /\ pc = "exit"
          /\ exit_status = EXIT_SUCCESS
          /\ buf = <<>>
          /\ total_words = Cardinality(RunStarts(consumed))
    /\ err # <<>> =>
          /\ pc = "exit"
          /\ exit_status # EXIT_SUCCESS
          /\ out = <<>>
    /\ pc = "exit" => (exit_status = EXIT_SUCCESS <=> err = <<>>)

\* an allocation failure after the whole input has been indexed
C8_Witness ==
    /\ pc = "exit"
    /\ err = <<"out of memory">>
    /\ array # <<>>
    /\ out = <<>>

---------------------------------------------------------------------------
(* C9 *)

\* C9: on every exit path of a run that opened a named input file the
\* program has closed the stream.  The code calls fclose only at line 234;
\* the exits on allocation failure before it leave the stream to exit().
C9_StreamClosedOnEveryExit ==
    (pc = "exit" /\ fp = "file") => fclosed

---------------------------------------------------------------------------
(* C10 *)

\* C10: total_words is the number of maximal alphanumeric runs of the
\* input, every run is counted once under its lower-cased text, and the
\* counts of the index add up to total_words.
C10_WordsAreRuns ==
    AtEndOfInput =>
        /\ total_words = Cardinality(RunStarts(consumed))
        /\ {hash_table[p].word : p \in DOMAIN hash_table} = WordsOf(consumed)
        /\ \A p, q \in DOMAIN hash_table :
              hash_table[p].word = hash_table[q].word => p = q
        /\ \A p \in DOMAIN hash_table :
              hash_table[p].count
                 = Cardinality(OccurrencesOf(consumed, hash_table[p].word))
        /\ SumCounts(hash_table, Len(hash_table)) = total_words

\* a word in both cases, the last run ended by the end of the stream
C10_Witness ==
    /\ AtEndOfInput
    /\ consumed # <<>>
    /\ isalnum(consumed[Len(consumed)])
    /\ \E i, j \in RunStarts(consumed) :
          /\ consumed[i] = "A"
          /\ consumed[j] = "a"
          /\ WordAt(consumed, i) = WordAt(consumed, j)
    /\ \E p \in DOMAIN hash_table : hash_table[p].count >= 2

=============================================================================
